---------------------------- MODULE Spec2Model ----------------------------
(***************************************************************************)
(* Fuel Friends (src/main.py): a password-gated ledger of friends' fuel    *)
(* balances kept in SQLite, with a transaction log.                        *)
(*                                                                         *)
(* Representation.                                                         *)
(*  - Python floats are modelled as exact decimals: every quantity is an   *)
(*    integer number of 1/10000 units (10 L = 100000, 60 kr = 600000,      *)
(*    0.004 kr = 40).  Request amounts are drawn so that the division by   *)
(*    PRICE_PER_LITER is exact; binary rounding error is not modelled.     *)
(*  - A name is a sequence of one-character strings, so that str.strip()   *)
(*    and len() are computed, not assumed.                                 *)
(*  - db is the durable SQLite file: the two tables and their              *)
(*    AUTOINCREMENT counters (sqlite_sequence).                            *)
(*  - clock is the last value now_utc_iso() returned.  A call returns     *)
(*    clock + dt: a later timestamp (dt = 1) or, the clock being no finer  *)
(*    than its resolution, the same one again (dt = 0).                    *)
(*  - last is an observer of Spec: the request just served, as far as the  *)
(*    server looked at it, and the response.  fuel_since_reset is a        *)
(*    history variable used to state the conservation law.                 *)
(*                                                                         *)
(* Four specifications.  Spec serves one request at a time, each handler   *)
(* being one action, every call of now_utc_iso() returning a later         *)
(* timestamp.  SpecHistory is Spec with a clock that may also return the   *)
(* same timestamp twice.  SpecConc runs the handlers that write both       *)
(* a friends row and a log entry statement by statement on two threadpool  *)
(* workers, with SQLite's write lock, per-connection uncommitted           *)
(* transactions and process crashes.  SpecRace is SpecConc in a process    *)
(* that never crashes.                                                     *)
(***************************************************************************)
EXTENDS Integers, Sequences, FiniteSets, TLC

VARIABLES
    APP_PASSWORD,      \* main.py:17, read once from the environment
    db,                \* the committed content of the SQLite file
    clock,             \* the last wall-clock value handed out
    last,              \* the last request served and its response (Spec)
    fuel_since_reset,  \* history: liters added per friend since create/reset
    pc,                \* SpecConc: each worker's position in its handler
    req,               \* SpecConc: each worker's request
    row,               \* SpecConc: the row each worker's SELECT returned
    txn,               \* SpecConc: each worker's uncommitted transaction
    lock               \* SpecConc: the holder of SQLite's write lock

vars == <<APP_PASSWORD, db, clock, last, fuel_since_reset, pc, req, row, txn, lock>>

seqVars == <<APP_PASSWORD, db, clock, last, fuel_since_reset>>

concVars == <<pc, req, row, txn, lock>>

-----------------------------------------------------------------------------
(* Bounds of the model *)

MaxFriends == 2

MaxTx == 3

\* SpecHistory tells clock readings apart up to this one
MaxClock == 1

(* Program constants *)

PRICE_PER_LITER == 10

HISTORY_LIMIT == 50

NAME_MIN_LENGTH == 2

-----------------------------------------------------------------------------
(* Values requests are drawn from *)

None == "None"

Secret == "hemligt"

Passwords == {None, "", Secret}

Headers == {None, Secret, "fel"}

Ids == 1 .. MaxFriends

\* the names of create requests: " Bo ", " A" (one character once stripped), "A"
Names == { <<" ", "B", "o", " ">>, <<" ", "A">>, <<"A">> }

\* the names of rename requests: "Al ", "A ", "A"
NewNames == { <<"A", "l", " ">>, <<"A", " ">>, <<"A">> }

\* what one call of now_utc_iso() may add to the previous timestamp
Later == {1}

SameOrLater == {0, 1}

\* 0 L, 10 L
LitersInputs == { 0, 100000 }

\* -0.004 kr, 0.004 kr, 100 kr
AmountInputs == { -40, 40, 1000000 }

Workers == {1, 2}

Min(a, b) == IF a < b THEN a ELSE b

-----------------------------------------------------------------------------
(* Pure helpers *)

\* round(float(x), 2): Python rounds half to even.
round2(x) ==
    LET q == x \div 100
        r == x % 100
    IN  IF r < 50 THEN q * 100
        ELSE IF r > 50 THEN (q + 1) * 100
        ELSE IF q % 2 = 0 THEN q * 100 ELSE (q + 1) * 100

calc_total_sek(liters) == round2(liters * PRICE_PER_LITER)

IsSpace(c) == c = " "

RECURSIVE lstrip(_)
lstrip(s) == IF s # <<>> /\ IsSpace(Head(s)) THEN lstrip(Tail(s)) ELSE s

RECURSIVE rstrip(_)
rstrip(s) ==
    IF s # <<>> /\ IsSpace(s[Len(s)]) THEN rstrip(SubSeq(s, 1, Len(s) - 1)) ELSE s

clean_name(name) == rstrip(lstrip(name))

\* pydantic: Field(min_length=2) on the raw string
FieldName(name) == Len(name) >= NAME_MIN_LENGTH

\* a length check that is off by one
NameTooShortOffByOne(name) == Len(name) < NAME_MIN_LENGTH - 1

\* the handlers' own check, after clean_name
NameTooShort(name) == Len(name) < NAME_MIN_LENGTH

\* pydantic: Field(gt=0)
FieldGt0(x) == x > 0

\* a require_password that lets a request without the header through
require_password_missing_ok(x_app_password) ==
    IF APP_PASSWORD = None \/ APP_PASSWORD = "" THEN 500
    ELSE IF x_app_password # APP_PASSWORD /\ x_app_password # None THEN 401
    ELSE 200

\* require_password: 200 stands for "the dependency returns"
require_password(x_app_password) ==
    IF APP_PASSWORD = None \/ APP_PASSWORD = "" THEN 500
    ELSE IF x_app_password # APP_PASSWORD THEN 401
    ELSE 200

\* connect() opens the file without PRAGMA foreign_keys = ON, and SQLite
\* enforces foreign keys (ON DELETE CASCADE included) only with the pragma.
foreign_keys == FALSE

-----------------------------------------------------------------------------
(* SQL statements, as functions on the content of the database *)

EmptyDb == [friends |-> <<>>, friends_seq |-> 0, transactions |-> <<>>, tx_seq |-> 0]

Exists(d, id) == id \in DOMAIN d.friends

\* INSERT INTO friends (name, total_liters, paid_sek, created_at)
InsertFriend(d, name, now) ==
    LET new_id == d.friends_seq + 1
        r == [name |-> name, total_liters |-> 0, paid_sek |-> 0, created_at |-> now]
    IN  [d EXCEPT !.friends = [i \in DOMAIN d.friends \cup {new_id} |->
                                   IF i = new_id THEN r ELSE d.friends[i]],
                  !.friends_seq = new_id]

\* log_transaction's INSERT INTO transactions
InsertTransaction(d, friend_id, trans_type, amount, description, now) ==
    [d EXCEPT !.transactions = Append(d.transactions,
                  [id |-> d.tx_seq + 1, friend_id |-> friend_id, type |-> trans_type,
                   amount |-> amount, description |-> description, created_at |-> now]),
              !.tx_seq = d.tx_seq + 1]

\* UPDATE friends SET name = ? WHERE id = ?
UpdateName(d, id, name) == [d EXCEPT !.friends[id].name = name]

\* UPDATE friends SET total_liters = ? WHERE id = ?
UpdateLiters(d, id, new_liters) == [d EXCEPT !.friends[id].total_liters = new_liters]

\* UPDATE friends SET total_liters = ?, paid_sek = ? WHERE id = ?
UpdateLitersPaid(d, id, new_liters, new_paid) ==
    [d EXCEPT !.friends[id].total_liters = new_liters, !.friends[id].paid_sek = new_paid]

\* UPDATE friends SET total_liters = 0, paid_sek = 0 WHERE id = ?
UpdateReset(d, id) == UpdateLitersPaid(d, id, 0, 0)

\* UPDATE friends SET total_liters = 0, paid_sek = 0
UpdateResetAll(d) ==
    [d EXCEPT !.friends = [i \in DOMAIN d.friends |->
                              [d.friends[i] EXCEPT !.total_liters = 0, !.paid_sek = 0]]]

\* DELETE FROM friends WHERE id = ?  (the cascade runs only with foreign keys on)
DeleteFriend(d, id) ==
    LET keep(t) == t.friend_id # id
    IN  [d EXCEPT !.friends = [i \in DOMAIN d.friends \ {id} |-> d.friends[i]],
                  !.transactions = IF foreign_keys THEN SelectSeq(d.transactions, keep)
                                   ELSE d.transactions]

\* the rows WHERE friend_id = ?
RowsOf(d, id) == { d.transactions[i] : i \in { j \in DOMAIN d.transactions :
                                                 d.transactions[j].friend_id = id } }

Orderings(S) ==
    { s \in [1 .. Cardinality(S) -> S] : \A i, j \in DOMAIN s : i # j => s[i] # s[j] }

\* ORDER BY created_at DESC: SQL fixes no order among rows with equal keys
OrderedByCreatedAtDesc(s) ==
    \A i, j \in DOMAIN s : i < j => s[i].created_at >= s[j].created_at

\* SELECT ... WHERE friend_id = ? ORDER BY created_at DESC LIMIT 50:
\* the set of results the query may return
SelectTransactions(d, id) ==
    { SubSeq(s, 1, Min(HISTORY_LIMIT, Len(s))) :
        s \in { o \in Orderings(RowsOf(d, id)) : OrderedByCreatedAtDesc(o) } }

-----------------------------------------------------------------------------
(* The handlers, as functions from the database and the request to the      *)
(* database and the response.  They are applied once require_password and   *)
(* the pydantic body model have let the request in.                         *)

Response(d, status, body) == [db |-> d, status |-> status, body |-> body]

\* a JSON error body
Detail(text) == [detail |-> text]

NotFound(d) == Response(d, 404, Detail("Friend not found."))

\* the JSON object the handlers build from a row
View(id, name, liters, paid) ==
    [id |-> id, name |-> name,
     totalLiters |-> round2(liters),
     totalSek |-> round2(calc_total_sek(liters)),
     paidSek |-> round2(paid),
     remainingSek |-> round2(calc_total_sek(liters))]

RowView(d, id) ==
    View(id, d.friends[id].name, d.friends[id].total_liters, d.friends[id].paid_sek)

\* ORDER BY id ASC
RECURSIVE ListViews(_, _)
ListViews(d, ids) ==
    IF ids = {} THEN <<>>
    ELSE LET lo == CHOOSE i \in ids : \A j \in ids : i <= j
         IN  <<RowView(d, lo)>> \o ListViews(d, ids \ {lo})

list_friends(d) == Response(d, 200, [items |-> ListViews(d, DOMAIN d.friends)])

\* now and now2 are the two reads of the clock: the row's and the log entry's
create_friend(d, body_name, now, now2) ==
    LET name == clean_name(body_name)
        d1 == InsertFriend(d, name, now)
        new_id == d1.friends_seq
        d2 == InsertTransaction(d1, new_id, "created", 0, [text |-> "Skapade kontakt:", name |-> name], now2)
    IN  IF NameTooShort(name)
        THEN Response(d, 400, Detail("Name must be at least 2 characters."))
        ELSE Response(d2, 201, View(new_id, name, 0, 0))

rename_friend(d, id, body_name) ==
    LET name == clean_name(body_name)
    IN  IF NameTooShort(name)
        THEN Response(d, 400, Detail("Name must be at least 2 characters."))
        ELSE IF ~Exists(d, id) THEN NotFound(d)
        ELSE Response(UpdateName(d, id, name), 200,
                      View(id, name, d.friends[id].total_liters, d.friends[id].paid_sek))

delete_friend(d, id) ==
    IF ~Exists(d, id) THEN NotFound(d)
    ELSE Response(DeleteFriend(d, id), 204, Detail(""))

\* an add-liters that overwrites the balance
AddNewLitersOverwrite(current_liters, liters_to_add) == liters_to_add

AddNewLiters(current_liters, liters_to_add) == current_liters + liters_to_add

add_liters(d, id, liters_to_add, now) ==
    IF ~Exists(d, id) THEN NotFound(d)
    ELSE LET new_liters == AddNewLiters(d.friends[id].total_liters, liters_to_add)
             d1 == UpdateLiters(d, id, new_liters)
             d2 == InsertTransaction(d1, id, "add_liters", liters_to_add,
                                     [text |-> "Lade till", value |-> round2(liters_to_add), unit |-> "L"], now)
         IN  Response(d2, 200,
                      View(id, d.friends[id].name, new_liters, d.friends[id].paid_sek))

\* amount / PRICE_PER_LITER
LitersToSubtract(amount) == amount \div PRICE_PER_LITER

\* a payment capped at the liters owed (an earlier policy of the ledger)
PayNewLitersCapped(current_liters, amount) ==
    IF current_liters - LitersToSubtract(amount) < 0 THEN 0
    ELSE current_liters - LitersToSubtract(amount)

PayNewLiters(current_liters, amount) == current_liters - LitersToSubtract(amount)

\* a payment that lowers what was paid
PayNewPaidSubtract(current_paid, amount) == current_paid - amount

PayNewPaid(current_paid, amount) == current_paid + amount

pay_friend(d, id, amount, now) ==
    IF ~Exists(d, id) THEN NotFound(d)
    ELSE LET new_liters == PayNewLiters(d.friends[id].total_liters, amount)
             new_paid == PayNewPaid(d.friends[id].paid_sek, amount)
             d1 == UpdateLitersPaid(d, id, new_liters, new_paid)
             d2 == InsertTransaction(d1, id, "payment", amount,
                                     [text |-> "Betalade", value |-> round2(amount), unit |-> "kr"], now)
         IN  Response(d2, 200, View(id, d.friends[id].name, new_liters, new_paid))

reset_friend(d, id, now) ==
    IF ~Exists(d, id) THEN NotFound(d)
    ELSE LET d1 == UpdateReset(d, id)
             d2 == InsertTransaction(d1, id, "reset", 0, [text |-> "Nollstallde kontot"], now)
         IN  Response(d2, 200, View(id, d.friends[id].name, 0, 0))

\* a reset-all that logs one entry per friend
RECURSIVE LogResetAll(_, _)
LogResetAll(d, ids) ==
    IF ids = {} THEN d
    ELSE LET i == CHOOSE x \in ids : TRUE
         IN  LogResetAll(InsertTransaction(d, i, "reset_all", 0, [text |-> "reset_all"], 0), ids \ {i})

reset_all_logged(d) ==
    Response(LogResetAll(UpdateResetAll(d), DOMAIN d.friends), 200, [ok |-> TRUE])

reset_all(d) == Response(UpdateResetAll(d), 200, [ok |-> TRUE])

\* the JSON list built from the rows the query returned
TransactionViews(rows) ==
    [i \in DOMAIN rows |->
        [id |-> rows[i].id, type |-> rows[i].type, amount |-> round2(rows[i].amount),
         description |-> rows[i].description, createdAt |-> rows[i].created_at]]

\* the responses get_transactions may give
get_transactions(d, id) ==
    IF ~Exists(d, id) THEN { NotFound(d) }
    ELSE { Response(d, 200, [items |-> TransactionViews(rows)]) : rows \in SelectTransactions(d, id) }

-----------------------------------------------------------------------------
(* Spec: one request at a time.                                             *)

NoRow == [name |-> <<>>, total_liters |-> 0, paid_sek |-> 0, created_at |-> 0]

\* what txn[w] holds while w has no transaction open
NoTxn == EmptyDb

NoReq == [op |-> "none", id |-> 0, num |-> 0, name |-> <<>>]

Init ==
    /\ APP_PASSWORD \in Passwords
    /\ db = EmptyDb
    /\ clock = 0
    /\ last = [op |-> "startup", hdr |-> None, id |-> 0, name |-> <<>>, num |-> 0,
               status |-> 0, body |-> Detail("")]
    /\ fuel_since_reset = <<>>
    /\ pc = [w \in Workers |-> "idle"]
    /\ req = [w \in Workers |-> NoReq]
    /\ row = [w \in Workers |-> NoRow]
    /\ txn = [w \in Workers |-> NoTxn]
    /\ lock = 0

\* Depends(require_password), then the pydantic model of the body, then the
\* handler
Gate(hdr, valid, res) ==
    LET auth == require_password(hdr)
    IN  IF auth = 500
        THEN Response(db, 500, Detail("APP_PASSWORD is not configured in Azure"))
        ELSE IF auth = 401 THEN Response(db, 401, Detail("Unauthorized"))
        ELSE IF ~valid THEN Response(db, 422, Detail("validation error"))
        ELSE res

\* A request the dependency turns away is recorded with its header only:
\* neither its path nor its body is looked at, and no handler runs.
Seen(hdr, inputs, blank) == IF require_password(hdr) = 200 THEN inputs ELSE {blank}

\* what a call of now_utc_iso() may return; no call is made unless r writes
now_utc_iso(r, from, dts) ==
    IF r.status \in {200, 201} THEN { from + dt : dt \in dts } ELSE {from}

Serve(op, hdr, id, name, num, r) ==
    /\ r.db.tx_seq <= MaxTx
    /\ r.db.friends_seq <= MaxFriends
    /\ db' = r.db
    /\ last' = [op |-> IF require_password(hdr) = 200 THEN op ELSE "refused",
                hdr |-> hdr, id |-> id, name |-> name, num |-> num,
                status |-> r.status, body |-> r.body]
    /\ UNCHANGED <<APP_PASSWORD, concVars>>

\* the history variable follows the friends table
FuelAfter(zeroed) ==
    [i \in DOMAIN db'.friends |->
        IF i \in zeroed \/ i \notin DOMAIN fuel_since_reset THEN 0
        ELSE fuel_since_reset[i]]

ListFriends ==
    \E hdr \in Headers :
        /\ Serve("list_friends", hdr, 0, <<>>, 0, Gate(hdr, TRUE, list_friends(db)))
        /\ UNCHANGED <<clock, fuel_since_reset>>

CreateFriend(dts) ==
    \E hdr \in Headers :
        \E name \in Seen(hdr, Names, <<>>) :
            LET try == Gate(hdr, FieldName(name), create_friend(db, name, clock, clock))
            IN  \E now \in now_utc_iso(try, clock, dts) :
                    \E now2 \in now_utc_iso(try, now, dts) :
                        /\ Serve("create_friend", hdr, 0, name, 0,
                                 Gate(hdr, FieldName(name),
                                      create_friend(db, name, now, now2)))
                        /\ clock' = now2
                        /\ fuel_since_reset' = FuelAfter({})

RenameFriend ==
    \E hdr \in Headers :
        \E id \in Seen(hdr, Ids, 0), name \in Seen(hdr, NewNames, <<>>) :
            /\ Serve("rename_friend", hdr, id, name, 0,
                     Gate(hdr, FieldName(name), rename_friend(db, id, name)))
            /\ UNCHANGED <<clock, fuel_since_reset>>

DeleteFriendReq ==
    \E hdr \in Headers :
        \E id \in Seen(hdr, Ids, 0) :
            /\ Serve("delete_friend", hdr, id, <<>>, 0, Gate(hdr, TRUE, delete_friend(db, id)))
            /\ fuel_since_reset' = FuelAfter({})
            /\ UNCHANGED clock

AddLiters(dts) ==
    \E hdr \in Headers :
        \E id \in Seen(hdr, Ids, 0), liters \in Seen(hdr, LitersInputs, 0) :
            LET try == Gate(hdr, FieldGt0(liters), add_liters(db, id, liters, clock))
            IN  \E now \in now_utc_iso(try, clock, dts) :
                    /\ Serve("add_liters", hdr, id, <<>>, liters,
                             Gate(hdr, FieldGt0(liters), add_liters(db, id, liters, now)))
                    /\ clock' = now
                    /\ fuel_since_reset' =
                           IF last'.status = 200
                           THEN [fuel_since_reset EXCEPT
                                    ![id] = fuel_since_reset[id] + liters]
                           ELSE fuel_since_reset

PayFriend(dts) ==
    \E hdr \in Headers :
        \E id \in Seen(hdr, Ids, 0), amount \in Seen(hdr, AmountInputs, 0) :
            LET try == Gate(hdr, FieldGt0(amount), pay_friend(db, id, amount, clock))
            IN  \E now \in now_utc_iso(try, clock, dts) :
                    /\ Serve("pay_friend", hdr, id, <<>>, amount,
                             Gate(hdr, FieldGt0(amount), pay_friend(db, id, amount, now)))
                    /\ clock' = now
                    /\ UNCHANGED fuel_since_reset

ResetFriend(dts) ==
    \E hdr \in Headers :
        \E id \in Seen(hdr, Ids, 0) :
            LET try == Gate(hdr, TRUE, reset_friend(db, id, clock))
            IN  \E now \in now_utc_iso(try, clock, dts) :
                    /\ Serve("reset_friend", hdr, id, <<>>, 0,
                             Gate(hdr, TRUE, reset_friend(db, id, now)))
                    /\ clock' = now
                    /\ fuel_since_reset' =
                           FuelAfter(IF last'.status = 200 THEN {id} ELSE {})

ResetAll ==
    \E hdr \in Headers :
        /\ Serve("reset_all", hdr, 0, <<>>, 0, Gate(hdr, TRUE, reset_all(db)))
        /\ fuel_since_reset' =
               FuelAfter(IF last'.status = 200 THEN DOMAIN db.friends ELSE {})
        /\ UNCHANGED clock

GetTransactions ==
    \E hdr \in Headers :
        \E id \in Seen(hdr, Ids, 0) :
            \E res \in Seen(hdr, get_transactions(db, id), NotFound(db)) :
                /\ Serve("get_transactions", hdr, id, <<>>, 0, Gate(hdr, TRUE, res))
                /\ UNCHANGED <<clock, fuel_since_reset>>

Next ==
    \/ ListFriends
    \/ CreateFriend(Later)
    \/ RenameFriend
    \/ DeleteFriendReq
    \/ AddLiters(Later)
    \/ PayFriend(Later)
    \/ ResetFriend(Later)
    \/ ResetAll
    \/ GetTransactions

Spec == Init /\ [][Next]_vars

\* the clock of SpecHistory: a call of now_utc_iso() may fall within the same
\* reading of the clock as the call before it
Readings == IF clock < MaxClock THEN SameOrLater ELSE {0}

NextHistory ==
    \/ ListFriends
    \/ CreateFriend(Readings)
    \/ RenameFriend
    \/ DeleteFriendReq
    \/ AddLiters(Readings)
    \/ PayFriend(Readings)
    \/ ResetFriend(Readings)
    \/ ResetAll
    \/ GetTransactions

SpecHistory == Init /\ [][NextHistory]_vars

-----------------------------------------------------------------------------
(* SpecConc: create_friend, add_liters, pay_friend and reset_friend run      *)
(* statement by statement on the workers of the threadpool, every request    *)
(* authorized and valid.  Each worker has its own connection (connect()).    *)
(* sqlite3 opens a transaction before an INSERT or UPDATE, not before a      *)
(* SELECT: txn[w] is the worker's view of the database from there to its     *)
(* commit, during which it holds SQLite's write lock.  db is what is         *)
(* committed, all that another connection reads and all that outlives a      *)
(* crash.  All calls of now_utc_iso() fall within one reading of the clock.  *)

InitConc ==
    /\ Init
    /\ APP_PASSWORD = Secret

Idle(w) == pc[w] = "idle"

Quiescent == \A w \in Workers : Idle(w)

InFlight(ops) == Cardinality({ w \in Workers : ~Idle(w) /\ req[w].op \in ops })

LoggedOps == {"create_friend", "add_liters", "pay_friend", "reset_friend"}

RequestsOf(op) ==
    CASE op = "create_friend" ->
             { [op |-> op, id |-> 0, num |-> 0, name |-> n] :
                 n \in { m \in Names : FieldName(m) /\ ~NameTooShort(clean_name(m)) } }
      [] op = "add_liters" ->
             { [op |-> op, id |-> i, num |-> l, name |-> <<>>] :
                 i \in Ids, l \in { x \in LitersInputs : FieldGt0(x) } }
      [] op = "pay_friend" ->
             { [op |-> op, id |-> i, num |-> a, name |-> <<>>] :
                 i \in Ids, a \in { x \in AmountInputs : FieldGt0(x) } }
      [] OTHER ->
             { [op |-> op, id |-> i, num |-> 0, name |-> <<>>] : i \in Ids }

\* a request reaches its handler on a free worker
Begin(w) ==
    /\ Idle(w)
    /\ db.tx_seq + InFlight(LoggedOps) < MaxTx
    /\ \E op \in LoggedOps :
           /\ op = "create_friend" => db.friends_seq + InFlight({op}) < MaxFriends
           /\ \E r \in RequestsOf(op) :
                  /\ req' = [req EXCEPT ![w] = r]
                  /\ pc' = [pc EXCEPT ![w] = IF op = "create_friend" THEN "write"
                                             ELSE "select"]
    /\ UNCHANGED <<seqVars, row, txn, lock>>

\* cur.execute("SELECT ... FROM friends WHERE id = ?"); row = cur.fetchone()
Select(w) ==
    /\ pc[w] = "select"
    /\ IF Exists(db, req[w].id)
       THEN /\ row' = [row EXCEPT ![w] = db.friends[req[w].id]]
            /\ pc' = [pc EXCEPT ![w] = "write"]
            /\ req' = req
       ELSE /\ pc' = [pc EXCEPT ![w] = "idle"]
            /\ req' = [req EXCEPT ![w] = NoReq]
            /\ row' = row
    /\ UNCHANGED <<seqVars, txn, lock>>

\* the handler's INSERT INTO friends or UPDATE friends, computed from the
\* row its SELECT returned
WriteRow(w) ==
    LET r == req[w]
    IN  CASE r.op = "create_friend" -> InsertFriend(db, clean_name(r.name), clock)
          [] r.op = "add_liters" ->
                 UpdateLiters(db, r.id, AddNewLiters(row[w].total_liters, r.num))
          [] r.op = "pay_friend" ->
                 UpdateLitersPaid(db, r.id, PayNewLiters(row[w].total_liters, r.num),
                                  PayNewPaid(row[w].paid_sek, r.num))
          [] OTHER -> UpdateReset(db, r.id)

Write(w) ==
    /\ pc[w] = "write"
    /\ lock = 0
    /\ lock' = w
    /\ txn' = [txn EXCEPT ![w] = WriteRow(w)]
    /\ req' = [req EXCEPT ![w].id = IF req[w].op = "create_friend"
                                    THEN WriteRow(w).friends_seq ELSE @]
    /\ pc' = [pc EXCEPT ![w] = IF req[w].op = "create_friend" THEN "commit_row"
                                ELSE "log"]
    /\ UNCHANGED <<seqVars, row>>

\* create_friend's conn.commit() after its INSERT
CommitRow(w) ==
    /\ pc[w] = "commit_row"
    /\ db' = txn[w]
    /\ txn' = [txn EXCEPT ![w] = NoTxn]
    /\ lock' = 0
    /\ pc' = [pc EXCEPT ![w] = "log"]
    /\ UNCHANGED <<APP_PASSWORD, clock, last, fuel_since_reset, req, row>>

\* the entry the handler passes to log_transaction
LogEntry(d, r) ==
    CASE r.op = "create_friend" ->
             InsertTransaction(d, r.id, "created", 0,
                               [text |-> "Skapade kontakt:", name |-> clean_name(r.name)], clock)
      [] r.op = "add_liters" ->
             InsertTransaction(d, r.id, "add_liters", r.num,
                               [text |-> "Lade till", value |-> round2(r.num), unit |-> "L"], clock)
      [] r.op = "pay_friend" ->
             InsertTransaction(d, r.id, "payment", r.num,
                               [text |-> "Betalade", value |-> round2(r.num), unit |-> "kr"], clock)
      [] OTHER -> InsertTransaction(d, r.id, "reset", 0, [text |-> "Nollstallde kontot"], clock)

\* log_transaction's INSERT: in the open transaction if the handler has one
Log(w) ==
    /\ pc[w] = "log"
    /\ lock \in {0, w}
    /\ lock' = w
    /\ txn' = [txn EXCEPT ![w] = LogEntry(IF lock = w THEN txn[w] ELSE db, req[w])]
    /\ pc' = [pc EXCEPT ![w] = "commit"]
    /\ UNCHANGED <<seqVars, req, row>>

\* log_transaction's conn.commit(); the handler's own commit then finds
\* nothing to commit, and the handler closes the connection and returns
Commit(w) ==
    /\ pc[w] = "commit"
    /\ db' = txn[w]
    /\ txn' = [txn EXCEPT ![w] = NoTxn]
    /\ lock' = 0
    /\ pc' = [pc EXCEPT ![w] = "idle"]
    /\ req' = [req EXCEPT ![w] = NoReq]
    /\ row' = [row EXCEPT ![w] = NoRow]
    /\ UNCHANGED <<APP_PASSWORD, clock, last, fuel_since_reset>>

\* the process stops: what is not committed is rolled back
Crash ==
    /\ ~Quiescent
    /\ pc' = [w \in Workers |-> "idle"]
    /\ req' = [w \in Workers |-> NoReq]
    /\ row' = [w \in Workers |-> NoRow]
    /\ txn' = [w \in Workers |-> NoTxn]
    /\ lock' = 0
    /\ UNCHANGED seqVars

NextConc ==
    \/ \E w \in Workers : Begin(w)
    \/ \E w \in Workers : Select(w)
    \/ \E w \in Workers : Write(w)
    \/ \E w \in Workers : CommitRow(w)
    \/ \E w \in Workers : Log(w)
    \/ \E w \in Workers : Commit(w)
    \/ Crash

SpecConc == InitConc /\ [][NextConc]_vars

\* the same workers in a process that never stops
NextRace ==
    \/ \E w \in Workers : Begin(w)
    \/ \E w \in Workers : Select(w)
    \/ \E w \in Workers : Write(w)
    \/ \E w \in Workers : CommitRow(w)
    \/ \E w \in Workers : Log(w)
    \/ \E w \in Workers : Commit(w)

SpecRace == InitConc /\ [][NextRace]_vars

-----------------------------------------------------------------------------
(* Properties of Spec.  In a step of Spec, last' is the request the step    *)
(* served and its response, db the database before it and db' after it.     *)

Configured == APP_PASSWORD # None /\ APP_PASSWORD # ""

Friends == db.friends

FriendsAfter == db'.friends

\* the request of this step passed require_password and was the operation op
Served(op) == last'.op = op

Ok == last'.status \in {200, 201, 204}

\* this step appended exactly the entry [friend_id, type, amount] to the log
Appended(friend_id, type, amount) ==
    /\ Len(db'.transactions) = Len(db.transactions) + 1
    /\ SubSeq(db'.transactions, 1, Len(db.transactions)) = db.transactions
    /\ LET e == db'.transactions[Len(db'.transactions)]
       IN  /\ e.friend_id = friend_id
           /\ e.type = type
           /\ e.amount = amount
           /\ e.id = Len(db'.transactions)

C2_NoOrphanTransactions ==
    \A i \in DOMAIN db.transactions : db.transactions[i].friend_id \in DOMAIN db.friends

\* C6: a request is turned away, the friends and transactions unchanged, with
\* 500 when no server password is configured and with 401 when one is
\* configured and the header is missing or differs; nothing else gives 500 or
\* 401.
C6_UnauthorizedRejected ==
    [][ /\ ~Configured => (last'.status = 500 /\ db' = db)
        /\ (Configured /\ last'.hdr # APP_PASSWORD) => (last'.status = 401 /\ db' = db)
        /\ (Configured /\ last'.hdr = APP_PASSWORD) => last'.status \notin {401, 500}
      ]_vars

\* a request with a wrong or missing header was turned away while a friend
\* with a log entry was stored
C6_Witness ==
    /\ last.status = 401
    /\ db.friends # <<>>
    /\ db.transactions # <<>>

\* C7: a request that is let in but invalid (a name shorter than 2 once
\* stripped, liters or amount <= 0) is answered 400 or 422, one that is valid
\* but names an unknown friend is answered 404, and either leaves the
\* database as it was.
C7_RejectedLeavesStateUnchanged ==
    [][ LET badName == Len(clean_name(last'.name)) < 2
            badNum == last'.num <= 0
            unknown == last'.id \notin DOMAIN Friends
            invalid == \/ (Served("create_friend") \/ Served("rename_friend")) /\ badName
                       \/ (Served("add_liters") \/ Served("pay_friend")) /\ badNum
            byId == \/ Served("rename_friend") \/ Served("delete_friend")
                    \/ Served("add_liters") \/ Served("pay_friend")
                    \/ Served("reset_friend")
        IN  /\ invalid => (last'.status \in {400, 422} /\ db' = db)
            /\ (byId /\ ~invalid /\ unknown) => (last'.status = 404 /\ db' = db)
            /\ last'.status \in {400, 422, 404} => db' = db
      ]_vars

\* a rename of a stored friend to "A " was answered 400
C7_Witness ==
    /\ last.op = "rename_friend"
    /\ last.status = 400
    /\ last.id \in DOMAIN db.friends
    /\ db.friends[last.id].name = <<"B", "o">>

\* C8 (original): no operation lowers a friend's paid_sek.
C8_PaidNeverDecreases ==
    [][ \A id \in DOMAIN Friends \cap DOMAIN FriendsAfter :
            FriendsAfter[id].paid_sek >= Friends[id].paid_sek ]_vars

\* C8 (as amended): paid_sek is lowered only by a Reset of that friend or by
\* Reset-all, which set it to 0; Create, Rename, Delete, Add and Pay never
\* lower any friend's paid_sek.
C8_PaidLoweredOnlyByReset ==
    [][ \A id \in DOMAIN Friends \cap DOMAIN FriendsAfter :
            \/ FriendsAfter[id].paid_sek >= Friends[id].paid_sek
            \/ /\ FriendsAfter[id].paid_sek = 0
               /\ \/ Served("reset_all")
                  \/ Served("reset_friend") /\ last'.id = id
      ]_vars

\* a friend who had paid has just been reset
C8_Witness ==
    /\ last.op = "reset_friend"
    /\ last.status = 200
    /\ db.friends[last.id].paid_sek = 0
    /\ \E i \in DOMAIN db.transactions :
           db.transactions[i].friend_id = last.id /\ db.transactions[i].type = "payment"

\* C9: a successful Create, Add, Pay or Reset appends exactly one entry, of
\* its friend, kind and amount; every other request leaves the entries that
\* exist as they are and appends none, but that a Delete may remove the
\* entries of the friend it deletes.
C9_LogAppendOnly ==
    [][ LET logged == /\ Ok
                      /\ \/ Served("create_friend") \/ Served("add_liters")
                         \/ Served("pay_friend") \/ Served("reset_friend")
            others(t) == t.friend_id # last'.id
        IN  /\ (Served("create_friend") /\ Ok) => Appended(last'.body.id, "created", 0)
            /\ (Served("add_liters") /\ Ok) => Appended(last'.id, "add_liters", last'.num)
            /\ (Served("pay_friend") /\ Ok) => Appended(last'.id, "payment", last'.num)
            /\ (Served("reset_friend") /\ Ok) => Appended(last'.id, "reset", 0)
            /\ (~logged /\ ~(Served("delete_friend") /\ Ok))
                 => db'.transactions = db.transactions
            /\ (Served("delete_friend") /\ Ok)
                 => SelectSeq(db'.transactions, others) = SelectSeq(db.transactions, others)
      ]_vars

\* a Reset-all has just been served over a log of a creation and a payment
C9_Witness ==
    /\ last.op = "reset_all"
    /\ last.status = 200
    /\ Len(db.transactions) >= 2
    /\ db.transactions[1].type = "created"
    /\ \E i \in DOMAIN db.transactions : db.transactions[i].type = "payment"

-----------------------------------------------------------------------------
(* Properties of SpecConc and SpecRace *)

EntriesOf(id) == SelectSeq(db.transactions, LAMBDA t : t.friend_id = id)

\* the balance the entries of a log give when applied one after the other
RECURSIVE Replay(_)
Replay(entries) ==
    IF entries = <<>> THEN [total_liters |-> 0, paid_sek |-> 0]
    ELSE LET before == Replay(SubSeq(entries, 1, Len(entries) - 1))
             e == entries[Len(entries)]
         IN  CASE e.type = "add_liters" ->
                      [before EXCEPT !.total_liters = @ + e.amount]
               [] e.type = "payment" ->
                      [total_liters |-> before.total_liters - e.amount \div PRICE_PER_LITER,
                       paid_sek |-> before.paid_sek + e.amount]
               [] e.type = "reset" -> [total_liters |-> 0, paid_sek |-> 0]
               [] OTHER -> before

\* C3: when no request is in flight, the committed database holds no friend
\* without the entry that logs its creation and no such entry without its
\* friend.
C3_RowAndLogCommittedTogether ==
    Quiescent =>
        /\ \A id \in DOMAIN db.friends :
               \E i \in DOMAIN db.transactions :
                   /\ db.transactions[i].friend_id = id
                   /\ db.transactions[i].type = "created"
        /\ \A i \in DOMAIN db.transactions :
               db.transactions[i].type = "created"
                   => db.transactions[i].friend_id \in DOMAIN db.friends

\* C4: when no request is in flight, every friend's balance is what the
\* committed requests give when applied one at a time in the order of their
\* commits (requests to add and to pay commute: every serial order of them
\* gives this balance).
C4_NoLostUpdate ==
    Quiescent =>
        \A id \in DOMAIN db.friends :
            /\ db.friends[id].total_liters = Replay(EntriesOf(id)).total_liters
            /\ db.friends[id].paid_sek = Replay(EntriesOf(id)).paid_sek

-----------------------------------------------------------------------------
(* Properties of SpecHistory *)

\* the rows of a friend, latest created_at first and, of two rows with the
\* same created_at, the larger id first
NewestFirst(id) ==
    CHOOSE s \in Orderings(RowsOf(db, id)) :
        \A i, j \in DOMAIN s :
            i < j => \/ s[i].created_at > s[j].created_at
                     \/ s[i].created_at = s[j].created_at /\ s[i].id > s[j].id

\* C5: the history of an existing friend is the min(50, n) most recent of its
\* n entries, latest creation time first and larger id first among equal
\* creation times; for an unknown friend the answer is 404.
C5_HistoryNewestFirst ==
    last.op = "get_transactions" =>
        IF last.id \in DOMAIN db.friends
        THEN /\ last.status = 200
             /\ last.body.items = TransactionViews(
                    SubSeq(NewestFirst(last.id), 1,
                           Min(HISTORY_LIMIT, Cardinality(RowsOf(db, last.id)))))
        ELSE last.status = 404

=============================================================================
